---- MODULE Spec2Model ----
(***************************************************************************)
(* Model of asin_image_downloader.py: the helpers (is_valid_url,           *)
(* infer_ext, suffix_for_column, download_bytes), the batch builder        *)
(* build_zip_for_batch, and the script body that deduplicates the sheet,   *)
(* slices it into batches and shows the download report.                   *)
(*                                                                         *)
(* Python strings are TLA+ strings; Optional[x] is <<>> (None) or <<x>>.   *)
(* A spreadsheet cell is <<"nan">> (missing), <<"none">> (Python None),    *)
(* <<"str", s>> or <<"bool", "True"|"False">>.                             *)
(***************************************************************************)
EXTENDS Integers, Sequences, FiniteSets, TLC

\* ------------------------------------------------------------------------
\* Python string primitives
\* ------------------------------------------------------------------------

None == <<>>
Some(v) == <<v>>

Char(s, i) == SubSeq(s, i, i)

\* The characters of the model in code point order (a rank that orders as ord does).
Ascii == "\t #./0123456789:;=?ABCDEFGHIJKLMNOPQRSTUVWXYZ_abcdefghijklmnopqrstuvwxyz"
UpperAZ == "ABCDEFGHIJKLMNOPQRSTUVWXYZ"
LowerAZ == "abcdefghijklmnopqrstuvwxyz"
Digits == "0123456789"

\* ord(c), as a rank
OrdOf == [c \in { Char(Ascii, i) : i \in 1..Len(Ascii) } |->
            CHOOSE i \in 1..Len(Ascii) : Char(Ascii, i) = c]
Ord(c) == OrdOf[c]

IsSpace(c) == c \in {" ", "\t"}

Min(S) == CHOOSE i \in S : \A j \in S : i <= j
Max(S) == CHOOSE i \in S : \A j \in S : i >= j

\* The value of a one-element set. An operator's argument is evaluated wherever
\* it is used, a bound variable once: Only({ e(x) : x \in {arg} }) is e(arg).
Only(S) == CHOOSE x \in S : TRUE

\* str.strip()
Strip(str) ==
    Only({ LET keep == { i \in 1..Len(s) : ~IsSpace(Char(s, i)) }
           IN  IF keep = {} THEN "" ELSE SubSeq(s, Min(keep), Max(keep)) : s \in {str} })

ToLower == [c \in { Char(UpperAZ, i) : i \in 1..Len(UpperAZ) } |->
              Char(LowerAZ, CHOOSE i \in 1..Len(UpperAZ) : Char(UpperAZ, i) = c)]
LowerChar(c) == IF c \in DOMAIN ToLower THEN ToLower[c] ELSE c

\* str.lower()
Lower(str) ==
    Only({ LET low[i \in 0..Len(s)] ==
                   IF i = 0 THEN "" ELSE low[i - 1] \o LowerChar(Char(s, i))
           IN  low[Len(s)] : s \in {str} })

\* str.replace(a, b) for single characters a, b
Replace(str, a, b) ==
    Only({ LET rep[i \in 0..Len(s)] ==
                   IF i = 0 THEN ""
                   ELSE rep[i - 1] \o (IF Char(s, i) = a THEN b ELSE Char(s, i))
           IN  rep[Len(s)] : s \in {str} })

\* sub in s
Contains(str, sub) ==
    \E s \in {str} :
        \E i \in 1..(Len(s) - Len(sub) + 1) : SubSeq(s, i, i + Len(sub) - 1) = sub

StartsWith(str, p) == \E s \in {str} : Len(p) <= Len(s) /\ SubSeq(s, 1, Len(p)) = p

EndsWith(str, p) ==
    \E s \in {str} : Len(p) <= Len(s) /\ SubSeq(s, Len(s) - Len(p) + 1, Len(s)) = p

\* set(s.split()): the maximal runs of non-whitespace characters
Words(str) ==
    UNION { LET n == Len(s)
                starts == { i \in 1..n : ~IsSpace(Char(s, i))
                                          /\ (i = 1 \/ IsSpace(Char(s, i - 1))) }
                stop(i) == Min({ j \in i..n : j = n \/ IsSpace(Char(s, j + 1)) })
            IN  { SubSeq(s, i, stop(i)) : i \in starts } : s \in {str} }

RECURSIVE IntToStr(_)
\* str(n) for n >= 0
IntToStr(num) ==
    Only({ IF n < 10 THEN Char(Digits, n + 1)
           ELSE IntToStr(n \div 10) \o Char(Digits, (n % 10) + 1) : n \in {num} })

\* f"{n:02d}" for n >= 0
Pad2(n) == IF n < 10 THEN "0" \o IntToStr(n) ELSE IntToStr(n)

\* a < b on str (lexicographic by code point)
StrLess(stra, strb) ==
    \E a \in {stra}, b \in {strb} :
        LET n == IF Len(a) < Len(b) THEN Len(a) ELSE Len(b)
            diff == { i \in 1..n : Char(a, i) # Char(b, i) }
        IN  IF diff = {} THEN Len(a) < Len(b)
            ELSE Ord(Char(a, Min(diff))) < Ord(Char(b, Min(diff)))

\* ------------------------------------------------------------------------
\* Cells
\* ------------------------------------------------------------------------

NaN == <<"nan">>
PyNone == <<"none">>
Str(s) == <<"str", s>>
Bool(s) == <<"bool", s>>

\* pandas isnull
IsNull(c) == c[1] \in {"nan", "none"}

\* str(x)
PyStr(c) ==
    CASE c[1] = "nan" -> "nan"
      [] c[1] = "none" -> "None"
      [] OTHER -> c[2]

\* ------------------------------------------------------------------------
\* Helpers
\* ------------------------------------------------------------------------

\* Faulty variant of is_valid_url: any scheme passes (C7 must notice)
is_valid_url_AnyScheme(url) ==
    IF url = PyNone THEN FALSE
    ELSE \E s \in {Lower(Strip(PyStr(url)))} :
            IF s \in {"", "nan", "none", "null", "na", "true", "false"} THEN FALSE
            ELSE Contains(s, "://")

NullLike == {"", "nan", "none", "null", "na", "true", "false"}

is_valid_url(url) ==
    IF url = PyNone THEN FALSE
    ELSE \E s \in {Lower(Strip(PyStr(url)))} :
            IF s \in NullLike THEN FALSE
            ELSE StartsWith(s, "http://") \/ StartsWith(s, "https://")

ImageExts == {"jpg", "jpeg", "png", "gif", "webp", "bmp", "tif", "tiff"}

ContentTypeMap ==
    [ct \in {"image/jpeg", "image/jpg", "image/png", "image/gif",
             "image/webp", "image/bmp", "image/tiff"} |->
        CASE ct = "image/jpeg" -> ".jpg"
          [] ct = "image/jpg" -> ".jpg"
          [] ct = "image/png" -> ".png"
          [] ct = "image/gif" -> ".gif"
          [] ct = "image/webp" -> ".webp"
          [] ct = "image/bmp" -> ".bmp"
          [] ct = "image/tiff" -> ".tif"]

\* re.sub(r"[?#].*$", "", url): the text before the first ? or #
StripQuery(url) ==
    LET cut == { i \in 1..Len(url) : Char(url, i) \in {"?", "#"} }
    IN  IF cut = {} THEN url ELSE SubSeq(url, 1, Min(cut) - 1)

\* content_type.split(";")[0]
BeforeSemicolon(s) ==
    LET cut == { i \in 1..Len(s) : Char(s, i) = ";" }
    IN  IF cut = {} THEN s ELSE SubSeq(s, 1, Min(cut) - 1)

infer_ext(url, content_type) ==
    Only({ LET m == { e \in ImageExts : EndsWith(path, "." \o e) }
           IN  IF m # {} THEN "." \o (CHOOSE e \in m : TRUE)
               ELSE IF content_type # None /\ content_type[1] # ""
                    THEN Only({ IF ct \in DOMAIN ContentTypeMap THEN ContentTypeMap[ct]
                                ELSE ".jpg" :
                                ct \in {Lower(Strip(BeforeSemicolon(content_type[1])))} })
                    ELSE ".jpg" : path \in {Lower(StripQuery(url))} })

\* Faulty variant of suffix_for_column: the Main rule before the Swatch rule
\* (C9 must notice)
suffix_for_column_MainFirst(col, pt_counter) ==
    Only({ LET c_words == Words(c)
               is_main_named ==
                   c \in {"main image", "image main"} \/ {"main", "image"} \subseteq c_words
           IN  IF is_main_named THEN <<"Main", pt_counter>>
               ELSE IF Contains(c, "swatch") THEN <<"Swatch", pt_counter>>
               ELSE <<"PT" \o Pad2(pt_counter), pt_counter + 1>> :
           c \in {Replace(Lower(Strip(col)), "_", " ")} })

\* Returns <<suffix, next pt_counter>>
suffix_for_column(col, pt_counter) ==
    Only({ LET c_words == Words(c)
               is_main_named ==
                   c \in {"main image", "image main"} \/ {"main", "image"} \subseteq c_words
           IN  IF Contains(c, "swatch") THEN <<"Swatch", pt_counter>>
               ELSE IF is_main_named THEN <<"Main", pt_counter>>
               ELSE <<"PT" \o Pad2(pt_counter), pt_counter + 1>> :
           c \in {Replace(Lower(Strip(col)), "_", " ")} })

\* What requests.get does for one call: a response, requests.Timeout, or another
\* requests.RequestException carrying str(e) = msg.
Response(status, content, ctype) ==
    [kind |-> "response", status |-> status, content |-> content, ctype |-> ctype, msg |-> ""]
TimeoutExc == [kind |-> "timeout", status |-> 0, content |-> "", ctype |-> None, msg |-> ""]
RequestExc(msg) == [kind |-> "error", status |-> 0, content |-> "", ctype |-> None, msg |-> msg]

\* Faulty variant of download_bytes: a 2xx response with an empty body passes
\* (C8 must notice)
download_bytes_EmptyBodyOk(got) ==
    IF got.kind = "response"
    THEN IF 200 <= got.status /\ got.status < 300
         THEN <<Some(got.content), got.ctype, Some(got.status), None>>
         ELSE <<None, got.ctype, Some(got.status), Some("HTTP " \o IntToStr(got.status))>>
    ELSE IF got.kind = "timeout"
         THEN <<None, None, None, Some("timeout")>>
         ELSE <<None, None, None, Some(got.msg)>>

\* Returns <<content, content_type, status_code, error_msg>>, each None or Some
download_bytes(got) ==
    IF got.kind = "response"
    THEN IF 200 <= got.status /\ got.status < 300 /\ got.content # ""
         THEN <<Some(got.content), got.ctype, Some(got.status), None>>
         ELSE <<None, got.ctype, Some(got.status), Some("HTTP " \o IntToStr(got.status))>>
    ELSE IF got.kind = "timeout"
         THEN <<None, None, None, Some("timeout")>>
         ELSE <<None, None, None, Some(got.msg)>>

\* ------------------------------------------------------------------------
\* The sheet: [columns |-> headers of the data columns,
\*             rows |-> <<[asin |-> cell of the ASIN column, cells |-> one per header]>>]
\* ------------------------------------------------------------------------

RECURSIVE SortKeys(_)
\* The group keys in ascending order (groupby sorts its keys)
SortKeys(keys) ==
    Only({ IF S = {} THEN <<>>
           ELSE LET m == CHOOSE k \in S : \A o \in S \ {k} : StrLess(k[2], o[2])
                IN  <<m>> \o SortKeys(S \ {m}) : S \in {keys} })

\* GroupBy.first(): per column, the first non-null value of the group
FirstNonNull(rows, key, j) ==
    LET idx == { i \in DOMAIN rows : rows[i].asin = key /\ ~IsNull(rows[i].cells[j]) }
    IN  IF idx = {} THEN NaN ELSE rows[Min(idx)].cells[j]

\* df.groupby(asin_col, as_index=False).first(): null keys are dropped
Dedupe(d) ==
    Only({ [columns |-> d.columns,
            rows |-> [k \in DOMAIN keys |->
                        [asin |-> keys[k],
                         cells |-> [j \in DOMAIN d.columns |->
                                      FirstNonNull(d.rows, keys[k], j)]]]] :
           keys \in { SortKeys({ d.rows[i].asin :
                                   i \in { i \in DOMAIN d.rows : ~IsNull(d.rows[i].asin) } }) } })

\* row.get(col, None)
RowGet(columns, row, col) ==
    LET idx == { j \in DOMAIN columns : columns[j] = col }
    IN  IF idx = {} THEN PyNone ELSE row.cells[Min(idx)]

\* Faulty variant of CeilDiv: the division rounds down (C3 must notice)
CeilDiv_Floor(a, b) == a \div b

\* math.ceil(a / b) for b >= 1
CeilDiv(a, b) == IF a % b = 0 THEN a \div b ELSE (a \div b) + 1

\* df.iloc[start:end]
ILoc(rows, start, end) ==
    LET hi == IF end < Len(rows) THEN end ELSE Len(rows)
    IN  IF start >= hi THEN <<>> ELSE SubSeq(rows, start + 1, hi)

\* sort_values(by=["Error", "ASIN"], na_position="last"): a None Error sorts last
EventLeq(a, b) ==
    IF a.Error = None /\ b.Error = None THEN ~StrLess(b.ASIN, a.ASIN)
    ELSE IF a.Error = None THEN FALSE
    ELSE IF b.Error = None THEN TRUE
    ELSE IF a.Error[1] = b.Error[1] THEN ~StrLess(b.ASIN, a.ASIN)
    ELSE StrLess(a.Error[1], b.Error[1])

\* stable: an event goes after the events that sort no later than it
Insert(sorted, e) ==
    Only({ LET n == Cardinality({ i \in DOMAIN s : EventLeq(s[i], e) })
           IN  SubSeq(s, 1, n) \o <<e>> \o SubSeq(s, n + 1, Len(s)) : s \in {sorted} })

SortEvents(evs) ==
    LET sorted[i \in 0..Len(evs)] ==
            IF i = 0 THEN <<>> ELSE Insert(sorted[i - 1], evs[i])
    IN  sorted[Len(evs)]

\* ------------------------------------------------------------------------
\* State
\* ------------------------------------------------------------------------

VARIABLES
    df,                      \* the sheet: as uploaded, then deduplicated
    image_columns,           \* the operator's ordered selection
    batch_size,
    pc,                      \* where the script run is
    total_asins, num_batches, batch_idx,
    batch_download_payloads, \* <<[label, zip, counters]>>
    all_events,
    report,                  \* None, or Some(the rows of the Download Report)
    batch_df, row_i, col_i,  \* build_zip_for_batch: its slice and loop positions
    asin, pt_counter, suffix,
    zipf,                    \* the archive's entries <<[name, data]>>, in write order
    events, files_written, errors,
    gets,                    \* requests.get calls issued so far
    web,                     \* what a requests.get of this run may do
    call, ret                \* a helper called on its own: its arguments and result

vars == <<df, image_columns, batch_size, pc, total_asins, num_batches, batch_idx,
          batch_download_payloads, all_events, report, batch_df, row_i, col_i,
          asin, pt_counter, suffix, zipf, events, files_written, errors, gets,
          web, call, ret>>

orchestrator == <<total_asins, num_batches, batch_idx, batch_download_payloads,
                  all_events, report>>
builder == <<batch_df, row_i, col_i, asin, pt_counter, suffix, zipf, events,
             files_written, errors>>
inputs == <<image_columns, batch_size, web>>

\* ------------------------------------------------------------------------
\* Inputs
\* ------------------------------------------------------------------------

MaxRows == 3
MaxBatch == 2
MaxCells == 4
MaxRowsC == 1
MaxCounter == 12
MaxRowsD == 3

SeqsUpTo(S, n) == UNION { [1..k -> S] : k \in 0..n }

\* The sheets of at most maxRows rows over the given headers
Sheets(maxRows, asins, columns, cells) ==
    { [columns |-> columns, rows |-> rows] :
        rows \in SeqsUpTo([asin : asins, cells : [DOMAIN columns -> cells]], maxRows) }

\* The sequences of distinct names of length 1..n
Orderings(names, n) ==
    { s \in SeqsUpTo(names, n) : Len(s) >= 1 /\ \A i, j \in DOMAIN s : i # j => s[i] # s[j] }

Url == "https://x/y"
Asins == {Str("A1"), Str("B2"), Str(" A1")}
ColNames == {"Main Image", "image_main", "Image 2", "Image_3"}
CellSamples ==
    {NaN, PyNone, Str(""), Str("  "), Str("NaN"), Str("None"), Str(" NULL "), Str("na"),
     Bool("True"), Bool("False"), Str("ftp://x"), Str("x.png"), Str("HTTP://x/y.PNG?v=2"),
     Str(" https://x/y ")}

\* What one requests.get may do: an image, an error status, a timeout, another
\* failure whose message is empty
Network ==
    {Response(200, "IMG", Some("image/png")), Response(404, "", None),
     TimeoutExc, RequestExc("")}
Answers == {Response(200, "IMG", Some("image/png")), Response(404, "", None)}

Idle(sheet, cols, size) ==
    /\ df = sheet
    /\ image_columns = cols
    /\ batch_size = size
    /\ total_asins = 0 /\ num_batches = 0 /\ batch_idx = 0
    /\ batch_download_payloads = <<>> /\ all_events = <<>> /\ report = None
    /\ batch_df = <<>> /\ row_i = 0 /\ col_i = 0
    /\ asin = "" /\ pt_counter = 1 /\ suffix = ""
    /\ zipf = <<>> /\ events = <<>> /\ files_written = 0 /\ errors = 0
    /\ gets = 0

\* A sheet was uploaded and read; the operator selected all of its data columns,
\* in the sheet's order, or none.
Uploaded(sheets, sizes, outcomes) ==
    /\ pc = "uploaded"
    /\ web = outcomes
    /\ \E sheet \in sheets, size \in sizes :
         \E cols \in {<<>>, sheet.columns} : Idle(sheet, cols, size)
    /\ call = <<>> /\ ret = None

\* Many rows, one image column
Init ==
    Uploaded(Sheets(MaxRows, Asins, <<"Image 2">>, {NaN, Str(Url)}), 1..MaxBatch, Network)

\* At most MaxCells image cells, the image columns in every order
InitRow ==
    Uploaded(UNION { Sheets(MaxCells \div Len(h), {Str("A1"), Str(" A1")}, h, {NaN, Str(Url)}) :
                        h \in Orderings(ColNames, MaxCells) },
             1..MaxBatch, Answers)

\* Every kind of cell
InitCell ==
    Uploaded(Sheets(MaxRowsC, {Str("A1")}, <<"Main Image", "Image 2">>, CellSamples),
             {1, MaxBatch}, Network)

\* ------------------------------------------------------------------------
\* The script run
\* ------------------------------------------------------------------------

\* Deduplicate by ASIN
Deduplicate ==
    /\ pc = "uploaded"
    /\ df' = Dedupe(df)
    /\ total_asins' = Len(df'.rows)
    /\ pc' = "configured"
    /\ UNCHANGED <<inputs, num_batches, batch_idx, batch_download_payloads, all_events,
                   report, builder, gets, call, ret>>

\* "Generate ZIP Batches" is clicked
Generate ==
    /\ pc = "configured"
    /\ \/ /\ image_columns = <<>>
          /\ pc' = "stopped"
          /\ UNCHANGED <<num_batches>>
       \/ /\ image_columns # <<>>
          /\ num_batches' = CeilDiv(total_asins, batch_size)
          /\ pc' = "loop"
    /\ batch_idx' = 0
    /\ batch_download_payloads' = <<>>
    /\ all_events' = <<>>
    /\ UNCHANGED <<df, inputs, total_asins, report, builder, gets, call, ret>>

\* The next batch is sliced and build_zip_for_batch is entered
BeginBatch ==
    /\ pc = "loop"
    /\ batch_idx < num_batches
    /\ batch_df' = ILoc(df.rows, batch_idx * batch_size, (batch_idx + 1) * batch_size)
    /\ zipf' = <<>>
    /\ events' = <<>>
    /\ files_written' = 0
    /\ errors' = 0
    /\ row_i' = 0
    /\ pc' = "rows"
    /\ UNCHANGED <<df, inputs, orchestrator, col_i, asin, pt_counter, suffix, gets, call, ret>>

RowDone == pc = "rows" \/ (pc = "cols" /\ col_i > Len(image_columns))

\* Faulty variant of BeginRow: the counter is carried over from the previous row
\* (C4 must notice)
BeginRow_CarryCounter ==
    /\ RowDone
    /\ row_i < Len(batch_df)
    /\ row_i' = row_i + 1
    /\ asin' = Strip(PyStr(batch_df[row_i + 1].asin))
    /\ col_i' = 1
    /\ pc' = "cols"
    /\ UNCHANGED <<df, inputs, orchestrator, batch_df, pt_counter, suffix, zipf, events,
                   files_written, errors, gets, call, ret>>

\* for _, row in batch_df.iterrows()
BeginRow ==
    /\ RowDone
    /\ row_i < Len(batch_df)
    /\ row_i' = row_i + 1
    /\ asin' = Strip(PyStr(batch_df[row_i + 1].asin))
    /\ pt_counter' = 1
    /\ col_i' = 1
    /\ pc' = "cols"
    /\ UNCHANGED <<df, inputs, orchestrator, batch_df, suffix, zipf, events,
                   files_written, errors, gets, call, ret>>

Cell == RowGet(df.columns, batch_df[row_i], image_columns[col_i])

Event(col, url, saved, status, err) ==
    [ASIN |-> asin, Column |-> col, URL |-> url, SavedAs |-> saved,
     Status |-> status, Error |-> err]

\* The cell is not a usable URL: continue
SkipCell ==
    /\ pc = "cols"
    /\ col_i <= Len(image_columns)
    /\ ~is_valid_url(Cell)
    /\ col_i' = col_i + 1
    /\ UNCHANGED <<df, inputs, pc, orchestrator, batch_df, row_i, asin, pt_counter, suffix,
                   zipf, events, files_written, errors, gets, call, ret>>

\* Faulty variant of Saved: the image is written but not counted (C10 must notice)
Saved_NoCount(col, url, filename, content, status) ==
    /\ zipf' = Append(zipf, [name |-> filename, data |-> content])
    /\ events' = Append(events, Event(col, url, Some(filename), status, None))
    /\ UNCHANGED <<files_written, errors, pc>>

\* if content: the image goes into the archive
Saved(col, url, filename, content, status) ==
    /\ zipf' = Append(zipf, [name |-> filename, data |-> content])
    /\ files_written' = files_written + 1
    /\ events' = Append(events, Event(col, url, Some(filename), status, None))
    /\ UNCHANGED <<errors, pc>>

\* Faulty variant of Failed: the failure leaves the builder instead of being
\* recorded (C5 must notice)
Failed_Abort(col, url, status, err) ==
    /\ pc' = "crashed"
    /\ UNCHANGED <<errors, events, zipf, files_written>>

\* else: the failure is recorded
Failed(col, url, status, err) ==
    /\ errors' = errors + 1
    /\ events' = Append(events,
           Event(col, url, None, status,
                 IF err # None /\ err[1] # "" THEN err ELSE Some("download_failed")))
    /\ UNCHANGED <<zipf, files_written, pc>>

\* The cell is a URL: name it, fetch it, and store the image or record the failure
FetchCell ==
    /\ pc = "cols"
    /\ col_i <= Len(image_columns)
    /\ is_valid_url(Cell)
    /\ \E got \in web :
         LET col == image_columns[col_i]
             url == Strip(PyStr(Cell))
             sc == suffix_for_column(col, pt_counter)
             r == download_bytes(got)
             content == r[1]
             content_type == r[2]
             status == r[3]
             err == r[4]
         IN  /\ suffix' = sc[1]
             /\ pt_counter' = sc[2]
             /\ gets' = gets + 1
             /\ IF content # None /\ content[1] # ""
                THEN Saved(col, url, asin \o "." \o sc[1] \o infer_ext(url, content_type),
                           content[1], status)
                ELSE Failed(col, url, status, err)
    /\ col_i' = col_i + 1
    /\ UNCHANGED <<df, inputs, orchestrator, batch_df, row_i, asin, call, ret>>

Counters == [files_written |-> files_written, asins |-> Len(batch_df), errors |-> errors]

BatchLabel ==
    "asin_batch_" \o Pad2(batch_idx + 1) \o "_of_" \o Pad2(num_batches) \o ".zip"

\* build_zip_for_batch returns; its events and archive are collected
EndBatch ==
    /\ RowDone
    /\ row_i = Len(batch_df)
    /\ all_events' = all_events \o events
    /\ batch_download_payloads' =
          Append(batch_download_payloads,
                 [label |-> BatchLabel, zip |-> zipf, counters |-> Counters])
    /\ batch_idx' = batch_idx + 1
    /\ pc' = "loop"
    /\ UNCHANGED <<df, inputs, total_asins, num_batches, report, builder, gets, call, ret>>

\* All batches processed: the downloads are offered and the report is shown
Finish ==
    /\ pc = "loop"
    /\ batch_idx = num_batches
    /\ report' = IF all_events # <<>> THEN Some(SortEvents(all_events)) ELSE None
    /\ pc' = "done"
    /\ UNCHANGED <<df, inputs, total_asins, num_batches, batch_idx, batch_download_payloads,
                   all_events, builder, gets, call, ret>>

Next ==
    \/ Deduplicate
    \/ Generate
    \/ BeginBatch
    \/ BeginRow
    \/ SkipCell
    \/ FetchCell
    \/ EndBatch
    \/ Finish

Spec == Init /\ [][Next]_vars

\* The script runs on one thread and every requests.get returns within its timeout:
\* a step that can be taken is taken.
SpecLive == Spec /\ WF_vars(Next)
SpecRow == InitRow /\ [][Next]_vars
SpecCell == InitCell /\ [][Next]_vars

\* ------------------------------------------------------------------------
\* The helpers called on their own
\* ------------------------------------------------------------------------

EmptySheet == [columns |-> <<>>, rows |-> <<>>]

Calling(calls) ==
    /\ pc = "call"
    /\ Idle(EmptySheet, <<>>, 1)
    /\ web = {}
    /\ call \in calls
    /\ ret = None

Return(value) ==
    /\ pc = "call"
    /\ ret' = Some(value)
    /\ pc' = "returned"
    /\ UNCHANGED <<df, inputs, orchestrator, builder, call>>

ColSamples ==
    {"Main Image", "image_main", "Image Main", " MAIN_IMAGE ", "Main  Product Image",
     "Swatch Image", "main_image_swatch", "SWATCHES", "Image 2", "Image_3", "mainimage",
     "Main", "Image", "Imagemain x", "main_images", ""}

CounterSamples == (1..MaxCounter) \cup {99, 100, 101}

InitSuffix ==
    Calling({ [fn |-> "suffix_for_column", args |-> <<col, n>>] :
                col \in ColSamples, n \in CounterSamples })

CallSuffix ==
    /\ call.fn = "suffix_for_column"
    /\ Return(suffix_for_column(call.args[1], call.args[2]))
    /\ UNCHANGED gets

SpecSuffix == InitSuffix /\ [][CallSuffix]_vars

FetchSamples ==
    { Response(s, c, t) : s \in {199, 200, 204, 299, 300, 301, 404, 500, 503},
                          c \in {"", "IMG"},
                          t \in {None, Some("image/png"), Some("text/html; charset=utf-8")} }
    \cup {TimeoutExc, RequestExc(""), RequestExc("Connection reset by peer")}

InitFetch ==
    Calling({ [fn |-> "download_bytes", args |-> <<got>>] : got \in FetchSamples })

\* One call of download_bytes: one requests.get
CallDownload ==
    /\ call.fn = "download_bytes"
    /\ gets' = gets + 1
    /\ Return(download_bytes(call.args[1]))

SpecFetch == InitFetch /\ [][CallDownload]_vars

InitDedup ==
    Calling({ [fn |-> "groupby_first", args |-> <<sheet>>] :
                sheet \in Sheets(MaxRowsD, {Str("B2"), Str("A1"), NaN},
                                 <<"Main Image", "Image 2">>, {NaN, Str(Url)}) })

CallDedupe ==
    /\ call.fn = "groupby_first"
    /\ Return(Dedupe(call.args[1]))
    /\ UNCHANGED gets

SpecDedup == InitDedup /\ [][CallDedupe]_vars

\* ------------------------------------------------------------------------
\* Properties
\* ------------------------------------------------------------------------

Range(s) == { s[i] : i \in DOMAIN s }

DigitValue == [c \in { Char(Digits, d) : d \in 1..Len(Digits) } |->
                 (CHOOSE d \in 1..Len(Digits) : Char(Digits, d) = c) - 1]

IsDigits(s) == Len(s) >= 1 /\ \A i \in 1..Len(s) : Char(s, i) \in DOMAIN DigitValue

\* The number a string of decimal digits writes
StrToInt(str) ==
    Only({ LET val[i \in 0..Len(s)] ==
                   IF i = 0 THEN 0
                   ELSE 10 * val[i - 1]
                        + DigitValue[Char(s, i)]
           IN  val[Len(s)] : s \in {str} })


\* The name with its case folded and its underscores and blanks made spaces,
\* between two spaces: a word w of the name is then " w " inside it.
Spaced(col) ==
    " " \o Replace(Replace(Lower(col), "_", " "), "\t", " ") \o " "

NamesSwatch(col) == Contains(Spaced(col), "swatch")
NamesMain(col) == Contains(Spaced(col), " main ") /\ Contains(Spaced(col), " image ")
Numbered(col) == ~NamesSwatch(col) /\ ~NamesMain(col)

\* The least k with k * b >= n
Ceiling(n, b) == Min({ k \in 0..n : k * b >= n })

\* C1: after the Batch Builder finishes, no two entries of a produced archive
\* share a filename.
C1_UniqueFilenames ==
    \A p \in Range(batch_download_payloads) :
        \A i, j \in DOMAIN p.zip : i # j => p.zip[i].name # p.zip[j].name

\* The rows of the sheet that carry the identifier key
RowsOf(sheet, key) == { i \in DOMAIN sheet.rows : sheet.rows[i].asin = key }

\* C2: after deduplication the identifiers are unique, the row retained for an
\* identifier is the first row of the sheet with that identifier, cell for cell,
\* and the retained rows are in the order of those first rows.
C2_FirstRowKept ==
    ret # None =>
        LET before == call.args[1]
            after == ret[1]
            first(k) == Min(RowsOf(before, after.rows[k].asin))
        IN  /\ \A i, j \in DOMAIN after.rows :
                  i # j => after.rows[i].asin # after.rows[j].asin
            /\ { r.asin : r \in Range(after.rows) }
                  = { r.asin : r \in { q \in Range(before.rows) : ~IsNull(q.asin) } }
            /\ \A k \in DOMAIN after.rows : after.rows[k] = before.rows[first(k)]
            /\ \A i, j \in DOMAIN after.rows : i < j => first(i) < first(j)

\* The rows [i*B, (i+1)*B) of the deduplicated sheet, as row numbers from 1
SliceRows(i) ==
    { r \in DOMAIN df.rows : i * batch_size < r /\ r <= (i + 1) * batch_size }

SumAsins(payloads) ==
    LET sum[i \in 0..Len(payloads)] ==
            IF i = 0 THEN 0 ELSE sum[i - 1] + payloads[i].counters.asins
    IN  sum[Len(payloads)]

\* C3: N identifiers and batch size B give ceil(N/B) batches, batch i covers the
\* rows [i*B, (i+1)*B), the asins counters add up to N, and every identifier is
\* in exactly one batch.
C3_Batches ==
    /\ pc \in {"loop", "rows", "cols", "done"} =>
          /\ num_batches = Ceiling(total_asins, batch_size)
          /\ total_asins = Len(df.rows)
          /\ \A r \in DOMAIN df.rows :
                Cardinality({ i \in 0..(num_batches - 1) : r \in SliceRows(i) }) = 1
          /\ \A i \in DOMAIN batch_download_payloads :
                batch_download_payloads[i].counters.asins = Cardinality(SliceRows(i - 1))
    /\ pc \in {"rows", "cols"} =>
          /\ batch_idx < num_batches
          /\ Len(batch_df) = Cardinality(SliceRows(batch_idx))
          /\ \A k \in DOMAIN batch_df : batch_df[k] = df.rows[batch_idx * batch_size + k]
    /\ pc = "done" =>
          /\ Len(batch_download_payloads) = Ceiling(total_asins, batch_size)
          /\ SumAsins(batch_download_payloads) = total_asins

C3_Witness ==
    /\ pc = "done"
    /\ total_asins = 3
    /\ batch_size = 2
    /\ Len(batch_download_payloads) = 2
    /\ batch_download_payloads[2].counters.asins = 1

\* The cell of row r, selected column c of the batch being built
CellAt(r, c) == RowGet(df.columns, batch_df[r], image_columns[c])

\* The selected columns before column c whose cell in the current row is a URL
ValidBefore(c) == { j \in 1..(c - 1) : is_valid_url(CellAt(row_i, j)) }

\* C4: within one row's pass the PTnn values are PT01, PT02, ... without gap or
\* repeat, given in configured order to the columns that are neither Main nor
\* Swatch (and whose cell is fetched), and the count starts at 1 in every row.
C4_Contiguous ==
    pc = "cols" =>
        \E valid \in {ValidBefore(col_i)} :
        \E numbered \in {{ j \in valid : Numbered(image_columns[j]) }} :
            LET rank(j) == Cardinality({ k \in numbered : k <= j })
                \* the event that column j of the current row appended
                event(j) == events[Len(events) - Cardinality({ k \in valid : k > j })]
                at == Len(asin) + Len(".PT")
            IN  /\ pt_counter = Cardinality(numbered) + 1
                /\ \A j \in numbered :
                      \E e \in {event(j)} :
                          /\ e.Column = image_columns[j]
                          /\ e.SavedAs # None =>
                                \E name \in {e.SavedAs[1]} :
                                    /\ StartsWith(name, asin \o ".PT")
                                    /\ IsDigits(SubSeq(name, at + 1, at + 2))
                                    /\ StrToInt(SubSeq(name, at + 1, at + 2)) = rank(j)
                                    /\ Char(name, at + 3) = "."
                /\ (col_i - 1) \in numbered =>
                      /\ Len(suffix) = 4
                      /\ StartsWith(suffix, "PT")
                      /\ StrToInt(SubSeq(suffix, 3, 4)) = Cardinality(numbered)

C4_Witness ==
    /\ pc = "cols"
    /\ Len(batch_df) = 2
    /\ row_i = 2
    /\ col_i = 3
    /\ pt_counter = 3
    /\ suffix = "PT02"
    /\ files_written = 4

\* The URL cells of the deduplicated sheet under the selected columns
UrlCells ==
    { p \in (DOMAIN df.rows) \X (DOMAIN image_columns) :
        is_valid_url(RowGet(df.columns, df.rows[p[1]], image_columns[p[2]])) }

FailureEvent(e) ==
    /\ e.SavedAs = None
    /\ e.Error # None
    /\ e.Error[1] # ""

Completed ==
    /\ pc = "done"
    /\ Len(batch_download_payloads) = Ceiling(Len(df.rows), batch_size)
    /\ Len(all_events) = Cardinality(UrlCells)
    /\ gets = Cardinality(UrlCells)

\* C5: a fetch that fails is recorded as one failure event with a reason and one
\* more error, the run goes on with the next cell, and a run that was started
\* ends with every URL cell attempted and every archive produced.
C5_FailureContinues ==
    /\ [][(pc = "cols" /\ col_i <= Len(image_columns) /\ is_valid_url(Cell)
           /\ gets' = gets + 1 /\ events' # events
           /\ events'[Len(events')].Error # None)
          => /\ Len(events') = Len(events) + 1
             /\ SubSeq(events', 1, Len(events)) = events
             /\ FailureEvent(events'[Len(events')])
             /\ errors' = errors + 1
             /\ pc' = "cols"
             /\ col_i' = col_i + 1]_vars
    /\ [](\A e \in Range(all_events) : e.Error # None => FailureEvent(e))
    /\ ((pc = "uploaded" /\ image_columns # <<>>) ~> Completed)

C5_Witness ==
    /\ Completed
    /\ Len(batch_download_payloads) = 2
    /\ batch_download_payloads[1].counters.errors = 2
    /\ batch_download_payloads[2].counters.files_written = 1
    /\ \E i \in DOMAIN all_events : all_events[i].Error = Some("timeout")

\* C6: a run that attempted at least one batch ends with the report produced,
\* also when no event was recorded.
C6_ReportProduced ==
    (pc = "done" /\ num_batches >= 1) => report # None

UnusableSamples ==
    {NaN, PyNone, Str(""), Str("  "), Str("NaN"), Str("None"), Str(" NULL "), Str("na"),
     Bool("True"), Bool("False"), Str("ftp://x"), Str("x.png")}

\* C7: a cell that is absent, null-like or not an http(s) URL is passed over:
\* no request, no event, no archive entry, no change of a counter.
C7_SkipNoEffect ==
    [][(pc = "cols" /\ col_i <= Len(image_columns) /\ Cell \in UnusableSamples)
       => /\ col_i' = col_i + 1
          /\ UNCHANGED <<gets, events, zipf, files_written, errors, pt_counter, suffix,
                         all_events, batch_download_payloads, pc>>]_vars

C7_Witness ==
    /\ pc = "cols"
    /\ col_i = 3
    /\ CellAt(1, 1) = Str("HTTP://x/y.PNG?v=2")
    /\ CellAt(1, 2) = Str("ftp://x")
    /\ Len(events) = 1
    /\ gets = 1

\* C8: one call makes one request and its result is one of four: a 2xx with a
\* body gives (body, content type, status, no error); another response gives
\* (no body, content type, status, "HTTP <status>"); a timeout gives "timeout"
\* alone; another failure gives its reason alone. The body is there exactly
\* when the error is not.
C8_Fetcher ==
    ret # None =>
        LET got == call.args[1]
            r == ret[1]
        IN  /\ gets = 1
            /\ Len(r) = 4
            /\ (r[1] # None) <=> (r[4] = None)
            /\ (got.kind = "response" /\ got.status \in 200..299 /\ Len(got.content) > 0)
                  => r = <<Some(got.content), got.ctype, Some(got.status), None>>
            /\ (got.kind = "response" /\ ~(got.status \in 200..299 /\ Len(got.content) > 0))
                  => /\ r[1] = None /\ r[2] = got.ctype /\ r[3] = Some(got.status)
                     /\ r[4] # None
                     /\ StartsWith(r[4][1], "HTTP ")
                     /\ IsDigits(SubSeq(r[4][1], 6, Len(r[4][1])))
                     /\ StrToInt(SubSeq(r[4][1], 6, Len(r[4][1]))) = got.status
            /\ got.kind = "timeout" => r = <<None, None, None, Some("timeout")>>
            /\ got.kind = "error" => r = <<None, None, None, Some(got.msg)>>

C8_Witness ==
    /\ ret # None
    /\ call.args[1] = Response(200, "", Some("image/png"))
    /\ ret[1] = <<None, Some("image/png"), Some(200), Some("HTTP 200")>>
    /\ gets = 1

\* C9: a name with "swatch" in it gives Swatch, also when it names main and
\* image; otherwise a name with the words main and image gives Main; both leave
\* the counter; any other name gives PT and the counter in two digits at least,
\* and the counter plus one.
C9_SuffixRules ==
    ret # None =>
        LET col == call.args[1]
            n == call.args[2]
            r == ret[1]
            digits == SubSeq(r[1], 3, Len(r[1]))
        IN  /\ NamesSwatch(col) => r = <<"Swatch", n>>
            /\ (~NamesSwatch(col) /\ NamesMain(col)) => r = <<"Main", n>>
            /\ Numbered(col) =>
                  /\ r[2] = n + 1
                  /\ StartsWith(r[1], "PT")
                  /\ IsDigits(digits)
                  /\ StrToInt(digits) = n
                  /\ Len(digits) = (IF n < 100 THEN 2 ELSE 3)

C9_Witness ==
    /\ ret = Some(<<"Swatch", 10>>)
    /\ call.args = <<"main_image_swatch", 10>>

\* The URL cells of the batch that the builder has been through
AttemptedCells ==
    { p \in (DOMAIN batch_df) \X (DOMAIN image_columns) :
        /\ p[1] < row_i \/ (p[1] = row_i /\ p[2] < col_i)
        /\ is_valid_url(CellAt(p[1], p[2])) }

Successes(evs) == { i \in DOMAIN evs : evs[i].SavedAs # None }
Failures(evs) == { i \in DOMAIN evs : evs[i].Error # None }

\* C10: files-written is the number of archive entries and of success events,
\* errors the number of failure events, their sum the number of events, which is
\* one per URL cell attempted, and an event has a filename or an error, not both.
C10_Accounting ==
    /\ files_written = Len(zipf)
    /\ files_written = Cardinality(Successes(events))
    /\ errors = Cardinality(Failures(events))
    /\ files_written + errors = Len(events)
    /\ Len(events) = Cardinality(AttemptedCells)
    /\ \A i \in DOMAIN events : (events[i].SavedAs # None) <=> (events[i].Error = None)
    /\ \A p \in Range(batch_download_payloads) :
          p.counters.files_written = Len(p.zip)

C10_Witness ==
    /\ pc = "cols"
    /\ row_i = 2
    /\ files_written = 2
    /\ errors = 1
    /\ Len(events) = 3
====
